---- MODULE Spec2Model ----
(***************************************************************************)
(* Model of fl::DiscreteDistribution (the weighted particle set) and of    *)
(* fl::ParticleFilter.                                                     *)
(*                                                                         *)
(* Numbers.  A FloatingPoint of the linear domain is a pair <<n, d>>: the  *)
(* exact rational n/d (d > 0, lowest terms), or NaN == <<0, 0>>.  A value  *)
(* of the log domain is a record [ln |-> <<n, d>>] standing for ln(n/d):   *)
(* [ln |-> <<0, 1>>] is minus infinity, [ln |-> <<0, 0>>] is NaN.          *)
(* Arithmetic is exact (no rounding); the IEEE special cases -inf - -inf,  *)
(* 0 * -inf and comparisons with NaN are kept.                             *)
(*                                                                         *)
(* Sequences are 1-based; the C++ index i is position i + 1.               *)
(***************************************************************************)
EXTENDS Integers, Sequences, FiniteSets, TLC

\* ---------------------------------------------------------------- bounds
MaxN == 2          \* largest particle count a call may ask for
MaxDim == 2        \* largest dimension a sampler or a state space is given
MaxDenom == 5      \* calls whose normalized weights need a larger common denominator are not taken

\* ------------------------------------------------------------ arithmetic
RECURSIVE Gcd(_, _)
Gcd(a, b) == IF b = 0 THEN a ELSE Gcd(b, a % b)

Lcm(a, b) == (a * b) \div Gcd(a, b)

NaN == <<0, 0>>
Zero == <<0, 1>>
One == <<1, 1>>

IsNaN(x) == x[2] = 0

\* n/d in lowest terms (n >= 0, d > 0)
Rat(n, d) == LET g == Gcd(n, d) IN <<n \div g, d \div g>>

Add(x, y) == IF IsNaN(x) \/ IsNaN(y) THEN NaN
             ELSE Rat(x[1] * y[2] + y[1] * x[2], x[2] * y[2])

Mul(x, y) == IF IsNaN(x) \/ IsNaN(y) THEN NaN
             ELSE Rat(x[1] * y[1], x[2] * y[2])

\* x / y; 0/0 is NaN (a positive x over 0 does not arise: see log_unnormalized_prob_mass)
Div(x, y) == IF IsNaN(x) \/ IsNaN(y) \/ y[1] = 0 THEN NaN
             ELSE Rat(x[1] * y[2], x[2] * y[1])

\* x < y as IEEE compares: FALSE when either side is NaN
Less(x, y) == ~IsNaN(x) /\ ~IsNaN(y) /\ x[1] * y[2] < y[1] * x[2]

\* ------------------------------------------------------------ log domain
Ln(q) == [ln |-> q]
NegInf == Ln(Zero)
LnNaN == Ln(NaN)
LnZero == Ln(One)          \* the log value 0

IsLnNaN(l) == IsNaN(l.ln)
IsNegInf(l) == ~IsLnNaN(l) /\ l.ln[1] = 0

\* std::exp / Eigen exp()
Exp(l) == IF IsLnNaN(l) THEN NaN ELSE Rat(l.ln[1], l.ln[2])

\* std::log of a non-negative value
Log(x) == IF IsNaN(x) THEN LnNaN ELSE Ln(Rat(x[1], x[2]))

\* a + b in the log domain
LnAdd(a, b) == IF IsLnNaN(a) \/ IsLnNaN(b) THEN LnNaN ELSE Ln(Mul(a.ln, b.ln))

\* a - b in the log domain: -inf - -inf is NaN.  The code subtracts only the vector's
\* maximum or log(sum) with sum >= 1, so a finite value minus -inf does not arise.
LnSub(a, b) == IF IsLnNaN(a) \/ IsLnNaN(b) \/ IsNegInf(b) THEN LnNaN
               ELSE Ln(Div(a.ln, b.ln))

\* a > b in the log domain, FALSE when either side is NaN
LnGreater(a, b) == Less(b.ln, a.ln)

\* ------------------------------------------------- reals (1/s) * ln(q)
\* entropy() and kl_given_uniform() are sums of products p * ln(x) with rational p:
\* such a value is [s |-> S, q |-> <<n, d>>], standing for (1/S) * ln(n/d); q = NaN is NaN.
RECURSIVE Pow(_, _)
Pow(x, k) == IF k = 0 THEN One ELSE Mul(x, Pow(x, k - 1))

Inv(x) == IF IsNaN(x) \/ x[1] = 0 THEN NaN ELSE <<x[2], x[1]>>

RealNaN == [s |-> 1, q |-> NaN]
RealZero == [s |-> 1, q |-> One]
RealLn(q) == [s |-> 1, q |-> q]

\* p * l for a linear p and a log-domain l: 0 * -inf is NaN
RealMul(p, l) ==
    IF IsNaN(p) \/ IsLnNaN(l) THEN RealNaN
    ELSE IF IsNegInf(l) THEN RealNaN       \* p = 0: NaN; p > 0: -inf, which the code never forms
    ELSE [s |-> p[2], q |-> Pow(l.ln, p[1])]

RealAdd(x, y) ==
    IF IsNaN(x.q) \/ IsNaN(y.q) THEN RealNaN
    ELSE LET S == Lcm(x.s, y.s)
         IN  [s |-> S, q |-> Mul(Pow(x.q, S \div x.s), Pow(y.q, S \div y.s))]

RealNeg(x) == [s |-> x.s, q |-> Inv(x.q)]

RealSub(x, y) == RealAdd(x, RealNeg(y))

\* x > y, FALSE when either side is NaN
RealGreater(x, y) ==
    /\ ~IsNaN(x.q)
    /\ ~IsNaN(y.q)
    /\ Less(Pow(y.q, x.s), Pow(x.q, y.s))

RealEqual(x, y) ==
    /\ ~IsNaN(x.q)
    /\ ~IsNaN(y.q)
    /\ Pow(y.q, x.s) = Pow(x.q, y.s)

\* ------------------------------------------------ DiscreteDistribution
\* the State values of the runs: one bit
Locs == {0, 1}

\* the sequences of length n over S
SeqsOfLen(S, n) == [1 .. n -> S]

\* Eigen's maxCoeff(): a visitor that starts from the first coefficient and
\* replaces it by every later one that compares greater
RECURSIVE MaxFrom(_, _, _)
MaxFrom(v, i, res) ==
    IF i > Len(v) THEN res
    ELSE MaxFrom(v, i + 1, IF LnGreater(v[i], res) THEN v[i] ELSE res)

maxCoeff(v) == MaxFrom(v, 2, v[1])

\* Eigen's sum(): 0 for an empty array
RECURSIVE SumFrom(_, _)
SumFrom(v, i) == IF i > Len(v) THEN Zero ELSE Add(v[i], SumFrom(v, i + 1))

sum(v) == SumFrom(v, 1)

\* the loop that fills cumul_distr_ from prob_mass_
RECURSIVE Cdf(_, _)
Cdf(pm, n) ==
    IF n = 1 THEN <<pm[1]>>
    ELSE LET c == Cdf(pm, n - 1) IN Append(c, Add(c[n - 1], pm[n]))

\* The constructor: one zero-valued location, log_prob_mass_ = (0), cumul_distr_ = (1).
\* prob_mass_ is not assigned and stays the empty array.
DiscreteDistribution ==
    [locations_     |-> <<0>>,
     log_prob_mass_ |-> <<LnZero>>,
     prob_mass_     |-> << >>,
     cumul_distr_   |-> <<One>>]

size(bel) == Len(bel.locations_)

\* log_unnormalized_prob_mass(log_prob_mass), for a non-empty argument.
\* uninit: what locations_ holds after a resize to another length (the old
\* coefficients are not kept).
log_unnormalized_prob_mass(bel, log_prob_mass, uninit) ==
    LET n == Len(log_prob_mass)
        mx == maxCoeff(log_prob_mass)
        rescaled == [i \in 1 .. n |-> LnSub(log_prob_mass[i], mx)]
        unnorm == [i \in 1 .. n |-> Exp(rescaled[i])]
        total == sum(unnorm)
        pm == [i \in 1 .. n |-> Div(unnorm[i], total)]
        lpm == [i \in 1 .. n |-> LnSub(rescaled[i], Log(total))]
    IN  [locations_     |-> IF n = Len(bel.locations_) THEN bel.locations_ ELSE uninit,
         log_prob_mass_ |-> lpm,
         prob_mass_     |-> pm,
         cumul_distr_   |-> Cdf(pm, n)]

\* log_prob_mass_ + delta, coefficient by coefficient.  The sum has delta's length
\* (Eigen takes a dynamic expression's size from its right operand); when delta is
\* longer, the coefficients read past the end of log_prob_mass_ are oob.
PlusDelta(lpm, delta, oob) ==
    [i \in 1 .. Len(delta) |->
        LnAdd(IF i <= Len(lpm) THEN lpm[i] ELSE oob[i], delta[i])]

delta_log_prob_mass(bel, delta, oob, uninit) ==
    log_unnormalized_prob_mass(bel, PlusDelta(bel.log_prob_mass_, delta, oob), uninit)

\* Function::Zero(new_size)
Zeros(n) == [i \in 1 .. n |-> LnZero]

\* set_uniform that leaves a belief of new_size particles as it is
set_uniform_keep(bel, new_size, uninit) ==
    IF new_size = Len(bel.prob_mass_) THEN bel
    ELSE log_unnormalized_prob_mass(bel, Zeros(new_size), uninit)

\* set_uniform(new_size), for new_size >= 1
set_uniform(bel, new_size, uninit) ==
    log_unnormalized_prob_mass(bel, Zeros(new_size), uninit)

\* lower_bound with the comparison of std::upper_bound: the first position whose
\* value is greater than the sample
RECURSIVE upper_bound(_, _, _, _)
upper_bound(cdf, first, count, value) ==
    IF count <= 0 THEN first
    ELSE LET step == count \div 2
             it == first + step
         IN  IF ~Less(value, cdf[it + 1])
             THEN upper_bound(cdf, it + 1, count - (step + 1), value)
             ELSE upper_bound(cdf, first, step, value)

\* std::lower_bound over cumul_distr_: binary search for the first position whose
\* value is not less than uniform_sample (0-based; Len(cdf) when there is none)
RECURSIVE lower_bound(_, _, _, _)
lower_bound(cdf, first, count, value) ==
    IF count <= 0 THEN first
    ELSE LET step == count \div 2
             it == first + step
         IN  IF Less(cdf[it + 1], value)
             THEN lower_bound(cdf, it + 1, count - (step + 1), value)
             ELSE lower_bound(cdf, first, step, value)

\* the index map_standard_uniform computes (0-based)
map_index(bel, uniform_sample) ==
    lower_bound(bel.cumul_distr_, 0, Len(bel.cumul_distr_), uniform_sample)

\* map_standard_uniform that skips every cumulative weight equal to the sample:
\* the location at the first position whose cumulative weight is greater (the last
\* location when there is none)
map_standard_uniform_after(bel, uniform_sample) ==
    LET n == Len(bel.cumul_distr_)
        index == upper_bound(bel.cumul_distr_, 0, n, uniform_sample)
    IN  bel.locations_[(IF index < n THEN index ELSE n - 1) + 1]

\* map_standard_uniform(uniform_sample), for an index inside locations_
map_standard_uniform(bel, uniform_sample) ==
    bel.locations_[map_index(bel, uniform_sample) + 1]

\* sample(): one standard normal draw mapped by map_standard_normal to a uniform
\* value and then by map_standard_uniform; u is that uniform value
sample(bel, u) == map_standard_uniform(bel, u)

\* Objects are named: a heap maps each name to its value, and a call that takes
\* two references may be handed the same name twice.
Objects == {"belief", "other"}

\* what a resized locations_ holds when every coefficient is overwritten before it is read
Unread(n) == [i \in 1 .. n |-> 0]

\* from_distribution without the local array: set_uniform first, then each draw
\* written straight into locations_
RECURSIVE DrawInPlace(_, _, _, _, _)
DrawInPlace(h, this, distribution, u, i) ==
    IF i > Len(u) THEN h
    ELSE DrawInPlace([h EXCEPT ![this].locations_[i] = sample(h[distribution], u[i])],
                     this, distribution, u, i + 1)

from_distribution_in_place(h, this, distribution, new_size, u) ==
    DrawInPlace([h EXCEPT ![this] = set_uniform(h[this], new_size, Unread(new_size))],
                this, distribution, u, 1)

\* this->from_distribution(distribution, new_size) for new_size >= 1: the draws go
\* to a local array first, then set_uniform, then locations_ = new_locations.
\* u: the uniform values of the new_size draws.
from_distribution(h, this, distribution, new_size, u) ==
    LET new_locations == [i \in 1 .. new_size |-> sample(h[distribution], u[i])]
        h1 == [h EXCEPT ![this] = set_uniform(h[this], new_size, Unread(new_size))]
    IN  [h1 EXCEPT ![this].locations_ = new_locations]

\* entropy(): - log_prob_mass_.cwiseProduct(prob_mass_).sum(); the product has the
\* length of its right operand, prob_mass_
RECURSIVE EntropySum(_, _)
EntropySum(bel, i) ==
    IF i > Len(bel.prob_mass_) THEN RealZero
    ELSE RealAdd(RealMul(bel.prob_mass_[i], bel.log_prob_mass_[i]), EntropySum(bel, i + 1))

entropy(bel) == RealNeg(EntropySum(bel, 1))

\* kl_given_uniform(): log(size()) - entropy()
kl_given_uniform(bel) == RealSub(RealLn(<<size(bel), 1>>), entropy(bel))

\* common denominator of the normalized weights (1 when they are NaN or absent)
RECURSIVE DenomFrom(_, _)
DenomFrom(pm, i) ==
    IF i > Len(pm) THEN 1
    ELSE IF IsNaN(pm[i]) THEN DenomFrom(pm, i + 1)
    ELSE Lcm(pm[i][2], DenomFrom(pm, i + 1))

Denom(bel) == DenomFrom(bel.prob_mass_, 1)

\* -------------------------------------------------------- ParticleFilter
Inputs == {1}
Noises == {0, 1}
Obsrvs == 0 .. 2

\* process_model_.state(state, noise, input): the process model of the runs adds
\* noise and input to the state bit
state(x, noise, input) == (x + noise + input) % Cardinality(Locs)

\* the observation model of the runs: observation 2 tells nothing (the same
\* log-likelihood everywhere); observation 0 halves the likelihood of every other
\* location; observation 1 rules every other location out
log_probability(obsrv, x) ==
    IF obsrv = 2 THEN Ln(<<1, 2>>)
    ELSE IF obsrv = 0 THEN (IF x = 0 THEN LnZero ELSE Ln(<<1, 2>>))
    ELSE (IF x = 1 THEN LnZero ELSE NegInf)

\* log_probabilities that scores the first location only
log_probabilities_first(obsrv, locations) == <<log_probability(obsrv, locations[1])>>

\* obsrv_model_.log_probabilities(obsrv, locations)
log_probabilities(obsrv, locations) ==
    [i \in 1 .. Len(locations) |-> log_probability(obsrv, locations[i])]

\* Variate::Zero(dim) of a vector-valued State
VariateZero(dim) == [i \in 1 .. dim |-> 0]

\* DiscreteDistribution::dimension(): locations_[0].rows()
belief_dimension(bel) == Len(bel.locations_[1])

\* create_belief() returning Belief(), the belief of the default dimension
create_belief_default(state_dimension) ==
    [DiscreteDistribution EXCEPT !.locations_ = <<VariateZero(1)>>]

\* create_belief(): Belief(process_model().state_dimension()), the constructor
\* with locations_(0) = Variate::Zero(dim)
create_belief(state_dimension) ==
    [DiscreteDistribution EXCEPT !.locations_ = <<VariateZero(state_dimension)>>]

\* StandardGaussian(dim): dimension_ as given; generator_ is the state of the
\* engine and normal distribution, written as the number of sample() calls made
\* on it since the caller's last call began (0 between calls)
StandardGaussian(dim) == [dimension_ |-> dim, generator_ |-> 0]

\* process_model.noise_dimension() and obsrv_model.noise_dimension() of the runs
NoiseDimension == 1

\* StandardGaussian::sample(): every call draws from generator_ and so moves it on
sample_noise(g) == [g EXCEPT !.generator_ = @ + 1]

\* dimension(new_dimension) without the early return
dimension_always(g, fixed, new_dimension) ==
    IF fixed THEN [outcome |-> "threw", g |-> g]
    ELSE [outcome |-> "returned", g |-> [g EXCEPT !.dimension_ = new_dimension]]

\* StandardGaussian::dimension(new_dimension) on the sampler g; fixed: the variate
\* type has a compile-time size (IsFixed).  fl_throw leaves by an exception.
dimension(g, fixed, new_dimension) ==
    IF g.dimension_ = new_dimension THEN [outcome |-> "returned", g |-> g]
    ELSE IF fixed THEN [outcome |-> "threw", g |-> g]
    ELSE [outcome |-> "returned", g |-> [g EXCEPT !.dimension_ = new_dimension]]

\* process_noise_ after a predict that calls sample() once, before its loop
predict_samples_once(g, bel) == sample_noise(g)

\* process_noise_ after predict's loop over the particles of bel: one sample() call
\* per particle
RECURSIVE predict_samples(_, _)
predict_samples(g, bel) ==
    IF size(bel) = 0 THEN g
    ELSE sample_noise(predict_samples(g, [bel EXCEPT !.locations_ = Tail(@)]))

\* the loop of predict, from index i (1-based) on
RECURSIVE PredictLoop(_, _, _, _, _, _)
PredictLoop(h, prior_belief, predicted_belief, input, noise, i) ==
    IF i > size(h[predicted_belief]) THEN h
    ELSE PredictLoop(
            [h EXCEPT ![predicted_belief].locations_[i] =
                state(h[prior_belief].locations_[i], noise[i], input)],
            prior_belief, predicted_belief, input, noise, i + 1)

\* predict with one noise sample drawn before the loop and used for every particle
predict_one_noise(h, prior_belief, input, predicted_belief, noise) ==
    PredictLoop([h EXCEPT ![predicted_belief] = h[prior_belief]],
                prior_belief, predicted_belief, input,
                [i \in 1 .. Len(noise) |-> noise[1]], 1)

\* predict(prior_belief, input, predicted_belief); noise: the process noise samples
predict(h, prior_belief, input, predicted_belief, noise) ==
    PredictLoop([h EXCEPT ![predicted_belief] = h[prior_belief]],
                prior_belief, predicted_belief, input, noise, 1)

\* the test of update with >= for >
TooConcentratedOrEqual(bel, max_kl) ==
    \/ RealGreater(kl_given_uniform(bel), max_kl)
    \/ RealEqual(kl_given_uniform(bel), max_kl)

\* the test of update: predicted_belief.kl_given_uniform() > max_kl_divergence_
TooConcentrated(bel, max_kl) == RealGreater(kl_given_uniform(bel), max_kl)

\* update up to the likelihood weighting: resample, or copy the predicted belief
update_resample(h, predicted_belief, posterior_belief, max_kl, u) ==
    IF TooConcentrated(h[predicted_belief], max_kl)
    THEN from_distribution(h, posterior_belief, predicted_belief,
                           size(h[predicted_belief]), u)
    ELSE [h EXCEPT ![posterior_belief] = h[predicted_belief]]

\* the likelihood weighting of update: the log-likelihoods of
\* predicted_belief.locations() are added to posterior_belief's log weights
update_weights(h, predicted_belief, obsrv, posterior_belief) ==
    [h EXCEPT ![posterior_belief] =
        delta_log_prob_mass(h[posterior_belief],
                            log_probabilities(obsrv, h[predicted_belief].locations_),
                            << >>, h[posterior_belief].locations_)]

\* update(predicted_belief, obsrv, posterior_belief); u: the draws of a resampling
update(h, predicted_belief, obsrv, posterior_belief, max_kl, u) ==
    update_weights(update_resample(h, predicted_belief, posterior_belief, max_kl, u),
                   predicted_belief, obsrv, posterior_belief)

\* predict_and_update(prior_belief, input, observation, posterior_belief)
predict_and_update(h, prior_belief, input, observation, posterior_belief, max_kl, noise, u) ==
    update(predict(h, prior_belief, input, posterior_belief, noise),
           posterior_belief, observation, posterior_belief, max_kl, u)

\* ---------------------------------------------------------- the program
\* heap: the caller's belief object and the object it hands to a call as a separate
\* output; max_kl_divergence_: the filter's threshold; call: the call the caller has
\* just made (name "none" between calls): its arguments, the caller's belief before
\* it (pre), the output belief after its predict step (predicted) and right before
\* its likelihood weighting (resampled), what it returned and whether it returned;
\* process_noise_, obsrv_noise_: the filter's two noise samplers
VARIABLES heap, max_kl_divergence_, process_noise_, obsrv_noise_, call

vars == <<heap, max_kl_divergence_, process_noise_, obsrv_noise_, call>>

\* the members of the filter
members == <<max_kl_divergence_, process_noise_, obsrv_noise_>>

\* the log weights and log-likelihoods a caller passes: -inf, ln(1/2), 0
LogInputs == {NegInf, Ln(<<1, 2>>), LnZero}

\* the uniform values a draw may take
Uniforms == {Zero, <<3, 4>>}

\* the dimensions a sampler or a state space is given
Dims == 1 .. MaxDim

\* the thresholds a filter is constructed with: 0 and ln(2)
MaxKlChoices == {RealLn(One), RealLn(<<2, 1>>)}

\* what locations_ may hold after a resize to n coefficients: what it held when n
\* is its length, n newly constructed coefficients otherwise
UninitLocs(bel, n) ==
    IF n = Len(bel.locations_) THEN {bel.locations_}
    ELSE {[i \in 1 .. n |-> x] : x \in Locs}

NoCall ==
    [name |-> "none", this |-> "belief", arg |-> << >>, u |-> << >>, noise |-> << >>,
     pre |-> << >>, predicted |-> << >>, resampled |-> << >>, ret |-> 0,
     outcome |-> "returned"]

Init ==
    /\ heap = [o \in Objects |-> DiscreteDistribution]
    /\ max_kl_divergence_ \in MaxKlChoices
    /\ process_noise_ = StandardGaussian(NoiseDimension)
    /\ obsrv_noise_ = StandardGaussian(NoiseDimension)
    /\ call = NoCall

\* the caller is between two calls
Running == call = NoCall

CallOf(name, this, arg) == [NoCall EXCEPT !.name = name, !.this = this, !.arg = arg]

\* the call c returns, leaving the heap h
Ends(c, h) ==
    /\ \A o \in Objects : Denom(h[o]) <= MaxDenom
    /\ heap' = h
    /\ call' = [c EXCEPT !.pre = heap["belief"]]

Returns(name, this, arg, h) == Ends(CallOf(name, this, arg), h)

\* a call that ends the program (a failed eigen_assert, or a crash)
Aborts(name, this, arg) ==
    Ends([CallOf(name, this, arg) EXCEPT !.outcome = "aborted"], heap)

\* belief.log_unnormalized_prob_mass(v).  An empty v makes maxCoeff() fail its
\* assertion, or read prob_mass_[0] of an empty array.
SetLogWeights ==
    /\ Running
    /\ \E n \in 0 .. MaxN : \E v \in SeqsOfLen(LogInputs, n) :
          IF n = 0 THEN Aborts("log_unnormalized_prob_mass", "belief", v)
          ELSE \E uninit \in UninitLocs(heap["belief"], n) :
                  Returns("log_unnormalized_prob_mass", "belief", v,
                          [heap EXCEPT !["belief"] =
                              log_unnormalized_prob_mass(@, v, uninit)])
    /\ UNCHANGED members

\* belief.delta_log_prob_mass(delta).  With a delta of another length the sum fails
\* Eigen's size assertion, or (assertions compiled out) is formed with delta's length.
AddLogWeightDelta ==
    /\ Running
    /\ \E n \in 0 .. MaxN : \E delta \in SeqsOfLen(LogInputs, n) :
          LET bel == heap["belief"] IN
          IF n = Len(bel.log_prob_mass_)
          THEN Returns("delta_log_prob_mass", "belief", delta,
                       [heap EXCEPT !["belief"] =
                           delta_log_prob_mass(@, delta, << >>, bel.locations_)])
          ELSE \/ Aborts("delta_log_prob_mass", "belief", delta)
               \/ /\ n >= 1
                  /\ \E g \in (IF n > Len(bel.log_prob_mass_) THEN LogInputs ELSE {LnZero}) :
                     \E uninit \in UninitLocs(bel, n) :
                        Returns("delta_log_prob_mass", "belief", delta,
                                [heap EXCEPT !["belief"] =
                                    delta_log_prob_mass(@, delta, [i \in 1 .. n |-> g],
                                                        uninit)])
    /\ UNCHANGED members

\* belief.set_uniform(n)
SetUniform ==
    /\ Running
    /\ \E n \in 0 .. MaxN :
          IF n = 0 THEN Aborts("set_uniform", "belief", n)
          ELSE \E uninit \in UninitLocs(heap["belief"], n) :
                  Returns("set_uniform", "belief", n,
                          [heap EXCEPT !["belief"] = set_uniform(@, n, uninit)])
    /\ UNCHANGED members

\* belief.location(i), either form, read.  Past the end Eigen's index assertion
\* fails, or (assertions compiled out) whatever lies there is returned.
LocationRead ==
    /\ Running
    /\ \E i \in 0 .. MaxN : \E form \in {"mutable", "const"} :
          LET bel == heap["belief"] IN
          IF i < size(bel)
          THEN Ends([CallOf("location", "belief", <<form, i>>) EXCEPT
                        !.ret = bel.locations_[i + 1]], heap)
          ELSE \/ Aborts("location", "belief", <<form, i>>)
               \/ \E x \in Locs :
                     Ends([CallOf("location", "belief", <<form, i>>) EXCEPT !.ret = x],
                          heap)
    /\ UNCHANGED members

\* belief.location(i) = x
LocationWrite ==
    /\ Running
    /\ \E i \in 0 .. MaxN - 1 : \E x \in Locs :
          /\ i < size(heap["belief"])
          /\ Returns("location=", "belief", <<i, x>>,
                     [heap EXCEPT !["belief"].locations_[i + 1] = x])
    /\ UNCHANGED members

\* this.from_distribution(belief, count), this being belief itself or the other
\* object.  count = 0 ends in set_uniform(0).
ResampleFrom ==
    /\ Running
    /\ \E this \in Objects : \E count \in 0 .. MaxN :
          IF count = 0 THEN Aborts("from_distribution", this, count)
          ELSE \E u \in SeqsOfLen(Uniforms, count) :
                  Ends([CallOf("from_distribution", this, count) EXCEPT !.u = u],
                       from_distribution(heap, this, "belief", count, u))
    /\ UNCHANGED members

\* filter.predict(belief, input, predicted), predicted being belief itself or the
\* other object
Predict ==
    /\ Running
    /\ \E predicted \in Objects : \E input \in Inputs :
       \E noise \in SeqsOfLen(Noises, size(heap["belief"])) :
          Ends([CallOf("predict", predicted, input) EXCEPT !.noise = noise],
               predict(heap, "belief", input, predicted, noise))
    /\ process_noise_' = predict_samples(process_noise_, heap["belief"])
    /\ UNCHANGED <<max_kl_divergence_, obsrv_noise_>>

\* prob_mass_ and log_prob_mass_ differ in length (a belief as constructed): entropy()
\* fails Eigen's size assertion, or (assertions compiled out) multiplies over
\* prob_mass_'s length
EntropyAsserts(bel) == Len(bel.prob_mass_) # Len(bel.log_prob_mass_)

\* the draws an update of bel consumes
Draws(bel) ==
    IF TooConcentrated(bel, max_kl_divergence_)
    THEN SeqsOfLen(Uniforms, size(bel))
    ELSE {<< >>}

\* filter.update(belief, obsrv, posterior), posterior being belief itself or the
\* other object
Update ==
    /\ Running
    /\ \E posterior \in Objects : \E obsrv \in Obsrvs :
          \/ /\ EntropyAsserts(heap["belief"])
             /\ Aborts("update", posterior, obsrv)
          \/ \E u \in Draws(heap["belief"]) :
                Ends([CallOf("update", posterior, obsrv) EXCEPT
                         !.u = u,
                         !.predicted = heap["belief"],
                         !.resampled = update_resample(heap, "belief", posterior,
                                                       max_kl_divergence_, u)[posterior]],
                     update(heap, "belief", obsrv, posterior, max_kl_divergence_, u))
    /\ UNCHANGED members

\* filter.predict_and_update(belief, input, obsrv, belief)
PredictAndUpdate ==
    /\ Running
    /\ \E input \in Inputs : \E obsrv \in Obsrvs :
       \E noise \in SeqsOfLen(Noises, size(heap["belief"])) :
          LET h1 == predict(heap, "belief", input, "belief", noise) IN
          \/ /\ EntropyAsserts(h1["belief"])
             /\ Aborts("predict_and_update", "belief", <<input, obsrv>>)
          \/ \E u \in Draws(h1["belief"]) :
                Ends([CallOf("predict_and_update", "belief", <<input, obsrv>>) EXCEPT
                         !.u = u,
                         !.noise = noise,
                         !.predicted = h1["belief"],
                         !.resampled = update_resample(h1, "belief", "belief",
                                                       max_kl_divergence_, u)["belief"]],
                     predict_and_update(heap, "belief", input, obsrv, "belief",
                                        max_kl_divergence_, noise, u))
    /\ process_noise_' = predict_samples(process_noise_, heap["belief"])
    /\ UNCHANGED <<max_kl_divergence_, obsrv_noise_>>

\* a sampler is constructed with dimension dim and asked for dimension new_dimension;
\* pre is the sampler as constructed, ret the sampler after the call
SetDimension ==
    /\ Running
    /\ \E fixed \in BOOLEAN : \E dim \in Dims : \E new_dimension \in Dims :
          LET r == dimension(StandardGaussian(dim), fixed, new_dimension) IN
          call' = [CallOf("dimension", "sampler", <<fixed, new_dimension>>) EXCEPT
                      !.pre = StandardGaussian(dim),
                      !.ret = r.g,
                      !.outcome = r.outcome]
    /\ UNCHANGED <<heap, members>>

\* create_belief() on a filter whose process model has the given state dimension;
\* ret is the belief returned
CreateBelief ==
    /\ Running
    /\ \E state_dimension \in Dims :
          call' = [CallOf("create_belief", "filter", state_dimension) EXCEPT
                      !.ret = create_belief(state_dimension)]
    /\ UNCHANGED <<heap, members>>

\* the caller goes on to its next call; the separate output object is dropped and
\* a new one constructed
Continue ==
    /\ call # NoCall
    /\ call.outcome \in {"returned", "threw"}
    /\ heap' = [heap EXCEPT !["other"] = DiscreteDistribution]
    /\ call' = NoCall
    /\ process_noise_' = [process_noise_ EXCEPT !.generator_ = 0]
    /\ UNCHANGED <<max_kl_divergence_, obsrv_noise_>>

\* belief = other: the caller takes the separate output of a call as its belief
CopyAssign ==
    /\ call # NoCall
    /\ call.outcome = "returned"
    /\ call.this = "other"
    /\ heap' = [heap EXCEPT !["belief"] = heap["other"], !["other"] = DiscreteDistribution]
    /\ call' = NoCall
    /\ process_noise_' = [process_noise_ EXCEPT !.generator_ = 0]
    /\ UNCHANGED <<max_kl_divergence_, obsrv_noise_>>

Next ==
    \/ SetLogWeights
    \/ AddLogWeightDelta
    \/ SetUniform
    \/ LocationRead
    \/ LocationWrite
    \/ ResampleFrom
    \/ Predict
    \/ Update
    \/ PredictAndUpdate
    \/ SetDimension
    \/ CreateBelief
    \/ Continue
    \/ CopyAssign

Spec == Init /\ [][Next]_vars

\* ------------------------------------------------------------ properties
Returned(names) == call.name \in names /\ call.outcome = "returned"

\* x >= y, FALSE when either side is NaN
GreaterEq(x, y) == ~IsNaN(x) /\ ~IsNaN(y) /\ y[1] * x[2] <= x[1] * y[2]

\* the weights 1/n, n times
UniformWeights(n) == [i \in 1 .. n |-> <<1, n>>]

\* C1: in every reachable state, the locations, the log weights, the normalized
\* weights (prob_mass_) and the cumulative weights of the belief have one common
\* length N >= 1.  The constructor leaves prob_mass_ empty, so this fails at once.
SameLengths ==
    LET bel == heap["belief"] IN
    /\ Len(bel.locations_) >= 1
    /\ Len(bel.log_prob_mass_) = Len(bel.locations_)
    /\ Len(bel.prob_mass_) = Len(bel.locations_)
    /\ Len(bel.cumul_distr_) = Len(bel.locations_)

Normalized(bel) ==
    LET n == Len(bel.prob_mass_) IN
    /\ n >= 1
    /\ Len(bel.cumul_distr_) = n
    /\ \A i \in 1 .. n : GreaterEq(bel.prob_mass_[i], Zero)
    /\ sum(bel.prob_mass_) = One
    /\ bel.cumul_distr_[1] = bel.prob_mass_[1]
    /\ \A i \in 2 .. n :
          /\ bel.cumul_distr_[i] = Add(bel.cumul_distr_[i - 1], bel.prob_mass_[i])
          /\ GreaterEq(bel.cumul_distr_[i], bel.cumul_distr_[i - 1])
    /\ bel.cumul_distr_[n] = One

Mutators ==
    {"log_unnormalized_prob_mass", "delta_log_prob_mass", "set_uniform",
     "from_distribution", "predict", "update", "predict_and_update"}

\* C2: after every mutation that returns (setLogWeights, addLogWeightDelta,
\* setUniform, resampleFrom, predict, update), the weights of the mutated belief are
\* non-negative and sum to 1, and the cumulative weights are their running sum,
\* non-decreasing and ending in 1.  Fails: log weights that are all -inf return
\* with NaN weights (C6), and predict copies a constructed belief's empty
\* prob_mass_ (C1).
NormalizedAfterMutation ==
    Returned(Mutators) => Normalized(heap[call.this])

\* the belief an update call was given as predicted_belief
PredictedOf(c) == c.predicted

\* an update call drew resampling draws
Resampled(c) == Len(c.u) > 0

\* C3: update resamples iff kl_given_uniform() of the predicted belief is strictly
\* greater than max_kl_divergence_; when it resamples, the posterior has uniform
\* weights over predicted.size() particles right before the likelihood weighting,
\* and when it does not, its weights there are the predicted belief's.
ResampleIffKlGreater ==
    Returned({"update", "predict_and_update"}) =>
        LET pred == PredictedOf(call)
            mid == call.resampled
            n == size(pred)
        IN  /\ Resampled(call) <=>
                  RealGreater(kl_given_uniform(pred), max_kl_divergence_)
            /\ Resampled(call) =>
                  /\ Len(call.u) = n
                  /\ size(mid) = n
                  /\ mid.prob_mass_ = UniformWeights(n)
                  /\ mid.cumul_distr_ = [i \in 1 .. n |-> Rat(i, n)]
            /\ ~Resampled(call) =>
                  /\ mid.prob_mass_ = pred.prob_mass_
                  /\ mid.log_prob_mass_ = pred.log_prob_mass_
                  /\ mid.cumul_distr_ = pred.cumul_distr_

\* C3 witness: an update of a two-particle belief that resampled
ResampleIffKlGreater_Witness ==
    /\ Returned({"update"})
    /\ Resampled(call)
    /\ size(call.pre) >= 2

\* C4: predict leaves the particle count and all weights as the prior's, and
\* location i becomes state(prior location i before the call, noise sample i, input),
\* whether the output is the prior object itself or another object.
PredictKeepsWeights ==
    Returned({"predict"}) =>
        LET prior == call.pre
            out == heap[call.this]
        IN  /\ size(out) = size(prior)
            /\ out.log_prob_mass_ = prior.log_prob_mass_
            /\ out.prob_mass_ = prior.prob_mass_
            /\ out.cumul_distr_ = prior.cumul_distr_
            /\ Len(call.noise) = size(prior)
            /\ \A i \in 1 .. size(prior) :
                  out.locations_[i] = state(prior.locations_[i], call.noise[i], call.arg)

\* C4 witness: an in-place predict of two weighted particles whose noise samples differ
PredictKeepsWeights_Witness ==
    /\ Returned({"predict"})
    /\ call.this = "belief"
    /\ size(call.pre) >= 2
    /\ call.noise[1] # call.noise[2]
    /\ call.pre.prob_mass_[1] # call.pre.prob_mass_[2]
    /\ heap["belief"].locations_ # call.pre.locations_

\* predict into a separate predicted belief, then update from it into a separate
\* posterior belief, with the noise samples and draws of the call c
TwoSteps(c) ==
    LET h0 == [o \in Objects |-> IF o = "belief" THEN c.pre ELSE DiscreteDistribution]
        h1 == predict(h0, "belief", c.arg[1], "other", c.noise)
    IN  update(h1, "other", c.arg[2], "belief", max_kl_divergence_, c.u)["belief"]

\* C5: predict_and_update leaves the posterior that predict into a separate belief
\* followed by update into another separate belief leaves, given the same noise
\* samples and draws.  Fails when update resamples: with separate objects the
\* likelihoods are those of the predicted locations, not of the resampled ones (C16).
SameAsTwoSteps ==
    Returned({"predict_and_update"}) => heap[call.this] = TwoSteps(call)

WeightSetters == {"log_unnormalized_prob_mass", "delta_log_prob_mass", "set_uniform"}

\* C6: setLogWeights, addLogWeightDelta and setUniform never return leaving
\* weights that are not finite or do not sum to 1 (they fail instead).  Fails: the
\* code makes no check, and log weights that are all -inf return with NaN weights.
NeverReturnsDegenerate ==
    Returned(WeightSetters) =>
        /\ \A i \in 1 .. Len(heap["belief"].prob_mass_) : ~IsNaN(heap["belief"].prob_mass_[i])
        /\ \A i \in 1 .. Len(heap["belief"].log_prob_mass_) :
              ~IsLnNaN(heap["belief"].log_prob_mass_[i])
        /\ sum(heap["belief"].prob_mass_) = One

\* C7: addLogWeightDelta with a delta of another length than the particle count
\* fails at that call and leaves the belief's size and weights as they were.
\* Fails: with Eigen's assertions compiled out the call returns and the belief has
\* delta's length.
DeltaLengthChecked ==
    (call.name = "delta_log_prob_mass"
        /\ Len(call.arg) # Len(call.pre.log_prob_mass_)) =>
            /\ call.outcome # "returned"
            /\ heap["belief"] = call.pre

\* C8: location(i), in either form, fails when i >= size(), and for i < size()
\* returns location i and leaves the belief unchanged.  Fails: with Eigen's
\* assertions compiled out an index past the end returns whatever lies there.
LocationChecked ==
    call.name = "location" =>
        LET bel == call.pre
            i == call.arg[2]
        IN  /\ heap["belief"] = call.pre
            /\ IF i >= size(bel) THEN call.outcome # "returned"
               ELSE call.outcome = "returned" /\ call.ret = bel.locations_[i + 1]

\* the uniform values the inverse-CDF lookup is checked at: every n/d in [0, 1)
\* with d up to MaxDenom + 1
TestUniforms == UNION {{Rat(n, d) : n \in 0 .. d - 1} : d \in 1 .. MaxDenom + 1}

\* i (1-based) is the smallest position with cdf[i] >= u
IsSmallestAtLeast(cdf, i, u) ==
    /\ GreaterEq(cdf[i], u)
    /\ \A j \in 1 .. i - 1 : ~GreaterEq(cdf[j], u)

\* the lookup on bel is the inverse CDF
InverseCdf(bel) ==
    LET cdf == bel.cumul_distr_
        n == Len(cdf)
    IN  /\ \A u \in TestUniforms : \A i \in 1 .. n :
              IsSmallestAtLeast(cdf, i, u) =>
                  /\ map_index(bel, u) = i - 1
                  /\ map_standard_uniform(bel, u) = bel.locations_[i]
        /\ (\A i \in 1 .. n : ~IsNaN(cdf[i])) =>
              /\ map_standard_uniform(bel, Zero) = bel.locations_[1]
              /\ \A u \in TestUniforms :
                    /\ map_index(bel, u) < n
                    /\ IsSmallestAtLeast(cdf, map_index(bel, u) + 1, u)
        /\ \A u1, u2 \in TestUniforms :
              Less(u1, u2) => map_index(bel, u1) <= map_index(bel, u2)
        /\ bel.prob_mass_ = UniformWeights(n) =>
              \A k \in 0 .. n - 1 : \A u \in TestUniforms :
                  (Less(Rat(k, n), u) /\ GreaterEq(Rat(k + 1, n), u)) =>
                      map_standard_uniform(bel, u) = bel.locations_[k + 1]

\* C9: for every u in [0, 1), map_standard_uniform(u) is locations[i] for the
\* smallest i with cumul_distr_[i] >= u: u = 0 gives locations[0], the index is
\* non-decreasing in u, on uniform weights a u in (k/N, (k+1)/N] gives locations[k];
\* and every draw of from_distribution is such a lookup in the source.
LookupIsInverseCdf ==
    /\ Running => InverseCdf(heap["belief"])
    /\ Returned({"from_distribution"}) =>
          \A k \in 1 .. Len(call.u) : \A i \in 1 .. size(call.pre) :
              IsSmallestAtLeast(call.pre.cumul_distr_, i, call.u[k]) =>
                  heap[call.this].locations_[k] = call.pre.locations_[i]

\* C9 witness: two draws from two unequally weighted particles at different
\* locations, the first draw 0, the second above the first cumulative weight
LookupIsInverseCdf_Witness ==
    /\ Returned({"from_distribution"})
    /\ Len(call.u) = 2
    /\ size(call.pre) = 2
    /\ call.pre.locations_[1] # call.pre.locations_[2]
    /\ call.pre.prob_mass_[1] # call.pre.prob_mass_[2]
    /\ call.u[1] = Zero
    /\ GreaterEq(call.pre.cumul_distr_[1], call.u[1])
    /\ Less(call.pre.cumul_distr_[1], call.u[2])
    /\ heap[call.this].locations_ = call.pre.locations_

\* the values of a sequence
Range(f) == {f[i] : i \in 1 .. Len(f)}

\* C10: after from_distribution(source, count) with count >= 1, this has count
\* particles of weight 1/count, and location i is the inverse-CDF lookup of draw i
\* in the source as it was before the call, hence one of the source's locations;
\* also when source and this are one object.
ResampleFromSnapshot ==
    Returned({"from_distribution"}) =>
        LET src == call.pre
            this == heap[call.this]
            count == call.arg
        IN  /\ count >= 1
            /\ size(this) = count
            /\ Len(this.log_prob_mass_) = count
            /\ this.prob_mass_ = UniformWeights(count)
            /\ this.cumul_distr_ = [i \in 1 .. count |-> Rat(i, count)]
            /\ \A i \in 1 .. count :
                  /\ this.locations_[i] = map_standard_uniform(src, call.u[i])
                  /\ this.locations_[i] \in Range(src.locations_)

\* C10 witness: a belief of one particle resampled from itself into two particles
ResampleFromSnapshot_Witness ==
    /\ Returned({"from_distribution"})
    /\ call.this = "belief"
    /\ call.arg = 2
    /\ size(call.pre) = 1
    /\ call.pre.locations_[1] # 0

ObsrvOf(c) == IF c.name = "update" THEN c.arg ELSE c.arg[2]

\* the observation model returns the same log-likelihood at every location
Uninformative(obsrv) ==
    \A x, y \in Locs : log_probability(obsrv, x) = log_probability(obsrv, y)

\* C12: when the observation model returns the same log-likelihood for every
\* particle, update leaves the normalized weights as they were right before the
\* likelihood weighting; and from uniform weights it does not resample and leaves
\* uniform weights.  Fails on a constructed belief: its prob_mass_ is empty (C1)
\* and the weighting fills it.
UninformativeKeepsWeights ==
    (Returned({"update", "predict_and_update"}) /\ Uninformative(ObsrvOf(call))) =>
        LET pred == PredictedOf(call)
            post == heap[call.this]
        IN  /\ post.prob_mass_ = call.resampled.prob_mass_
            /\ pred.prob_mass_ = UniformWeights(size(pred)) =>
                  /\ ~Resampled(call)
                  /\ post.prob_mass_ = UniformWeights(size(pred))

FilterCalls == {"predict", "update", "predict_and_update"}

\* C13 as stated: predict, update and predict_and_update leave every member of
\* the filter (the noise samplers with their generator state, max_kl_divergence_)
\* unchanged.  Fails: predict calls process_noise_.sample() once per particle.
FilterNeverChanges ==
    [][(Running /\ call'.name \in FilterCalls) => UNCHANGED members]_vars

\* C13 amended: no call changes max_kl_divergence_, obsrv_noise_ or the dimension
\* of process_noise_; predict and predict_and_update move the generator of
\* process_noise_ on by one sample per particle of the prior, and every other call,
\* update included, leaves process_noise_ as it was.
OnlyPredictMovesProcessNoise ==
    [][Running =>
        /\ max_kl_divergence_' = max_kl_divergence_
        /\ obsrv_noise_' = obsrv_noise_
        /\ process_noise_'.dimension_ = process_noise_.dimension_
        /\ IF call'.name \in {"predict", "predict_and_update"}
           THEN process_noise_'.generator_ =
                    process_noise_.generator_ + size(heap["belief"])
           ELSE process_noise_' = process_noise_]_vars

\* C13 witness: a predict of two particles has returned and process_noise_ has
\* been sampled twice
OnlyPredictMovesProcessNoise_Witness ==
    /\ Returned({"predict"})
    /\ size(call.pre) = 2
    /\ process_noise_.generator_ = 2

\* C14: dimension(new_dimension) with the sampler's current dimension returns and
\* changes nothing, fixed-size variates included; with another dimension it throws
\* and leaves dimension_ as it was when the variate has a compile-time size, and
\* otherwise returns with dimension_ = new_dimension.
DimensionCases ==
    call.name = "dimension" =>
        LET fixed == call.arg[1]
            new_dimension == call.arg[2]
        IN  IF call.pre.dimension_ = new_dimension
            THEN call.outcome = "returned" /\ call.ret = call.pre
            ELSE IF fixed
            THEN call.outcome = "threw" /\ call.ret.dimension_ = call.pre.dimension_
            ELSE call.outcome = "returned" /\ call.ret.dimension_ = new_dimension

\* C14 witness: a fixed-size sampler asked for the dimension it has
DimensionCases_Witness ==
    /\ call.name = "dimension"
    /\ call.arg[1]
    /\ call.arg[2] = call.pre.dimension_
    /\ call.arg[2] > 1
    /\ call.outcome = "returned"

\* C15: create_belief() returns a belief of exactly one particle whose location
\* is the zero vector of the process model's state dimension, so that dimension()
\* of the belief is that state dimension; and it changes no member of the filter.
CreateBeliefIsOneZeroParticle ==
    [][(Running /\ call'.name = "create_belief") =>
        LET belief == call'.ret
            state_dimension == call'.arg
        IN  /\ size(belief) = 1
            /\ belief.locations_[1] = VariateZero(state_dimension)
            /\ belief_dimension(belief) = state_dimension
            /\ UNCHANGED members]_vars

\* C15 witness: create_belief() has returned for a process model of state
\* dimension 2 or more
CreateBeliefIsOneZeroParticle_Witness ==
    /\ Returned({"create_belief"})
    /\ call.arg >= 2
    /\ belief_dimension(call.ret) = call.arg

\* C16: the log-likelihoods update adds to the posterior's log weights are those
\* of the locations the posterior holds right before the weighting (the resampled
\* locations when it resampled), whether the posterior is the predicted belief
\* itself or another object.  Fails with another object: the likelihoods are
\* those of predicted_belief.locations().
LikelihoodOfPosteriorLocations ==
    Returned({"update", "predict_and_update"}) =>
        LET mid == call.resampled IN
        heap[call.this] =
            delta_log_prob_mass(mid, log_probabilities(ObsrvOf(call), mid.locations_),
                                << >>, mid.locations_)

\* C17: log_unnormalized_prob_mass with as many log weights as there are
\* particles, and delta_log_prob_mass, leave every location as it was; and an
\* update that does not resample returns the predicted locations, index for index.
\* Fails: delta_log_prob_mass with a delta of another length can return (C7), and
\* then locations_ has been resized.
LocationsKept ==
    /\ (Returned({"log_unnormalized_prob_mass"}) /\ Len(call.arg) = size(call.pre)) =>
          heap["belief"].locations_ = call.pre.locations_
    /\ Returned({"delta_log_prob_mass"}) =>
          heap["belief"].locations_ = call.pre.locations_
    /\ (Returned({"update", "predict_and_update"}) /\ ~Resampled(call)) =>
          heap[call.this].locations_ = PredictedOf(call).locations_

\* C18: predict, update (whether it resamples or not) and predict_and_update
\* return a belief with as many particles, and as many log weights, as the belief
\* they were given; so the particle count stays what it was over any sequence of
\* such calls.
ParticleCountKept ==
    Returned(FilterCalls) =>
        LET out == heap[call.this]
            n == size(call.pre)
        IN  /\ size(out) = n
            /\ Len(out.log_prob_mass_) = n
            /\ call.name # "predict" =>
                  /\ size(PredictedOf(call)) = n
                  /\ size(call.resampled) = n
                  /\ Len(out.prob_mass_) = n
                  /\ Len(out.cumul_distr_) = n

\* C18 witness: an update of two particles into a separate posterior resampled
\* and left two particles
ParticleCountKept_Witness ==
    /\ Returned({"update"})
    /\ call.this = "other"
    /\ Resampled(call)
    /\ size(call.pre) = 2
    /\ size(heap["other"]) = 2

\* the finite constants log weights are shifted by: ln(1/2), 0, ln(2)
Shifts == {Ln(<<1, 2>>), LnZero, Ln(<<2, 1>>)}

\* w + c, coefficient by coefficient
Shifted(w, c) == [i \in 1 .. Len(w) |-> LnAdd(w[i], c)]

\* every entry of delta is the same finite constant
ConstantDelta(delta) ==
    /\ Len(delta) >= 1
    /\ \A i \in 1 .. Len(delta) : delta[i] = delta[1]
    /\ ~IsNegInf(delta[1])
    /\ ~IsLnNaN(delta[1])

\* C19: log_unnormalized_prob_mass(w + c) leaves the normalized weights, log
\* weights and cumulative weights that log_unnormalized_prob_mass(w) leaves, for
\* every finite constant c; delta_log_prob_mass with a constant delta leaves the
\* normalized weights as they were, and a second application changes nothing.
\* Fails on a constructed belief: its prob_mass_ is empty (C1) and the first
\* delta_log_prob_mass fills it.
ShiftInvariant ==
    /\ Returned({"log_unnormalized_prob_mass"}) =>
          \A c \in Shifts :
              log_unnormalized_prob_mass(call.pre, Shifted(call.arg, c),
                                         heap["belief"].locations_) = heap["belief"]
    /\ (Returned({"delta_log_prob_mass"}) /\ ConstantDelta(call.arg)
            /\ Len(call.arg) = size(call.pre)) =>
          /\ heap["belief"].prob_mass_ = call.pre.prob_mass_
          /\ delta_log_prob_mass(heap["belief"], call.arg, << >>,
                                 heap["belief"].locations_) = heap["belief"]

\* the particle (1-based) that map_standard_uniform(u) returns on bel has a
\* normalized weight other than zero
PicksNonZero(bel, u) == bel.prob_mass_[map_index(bel, u) + 1] # Zero

\* the weights of bel are assigned, one per cumulative weight
Weighted(bel) == Len(bel.prob_mass_) = Len(bel.cumul_distr_)

\* C20 as stated: map_standard_uniform(u) returns no particle of weight zero, for
\* every u in [0, 1).  Fails at u = 0 when particle 0 has weight zero:
\* cumul_distr_[0] = 0 is not less than 0.
NeverPicksZeroWeight ==
    (Running /\ Weighted(heap["belief"])) =>
        \A u \in TestUniforms : PicksNonZero(heap["belief"], u)

\* C20 amended: for every u in (0, 1), map_standard_uniform(u) returns no
\* particle of weight zero, and for u = 0 it returns particle 0 whatever its
\* weight; the draws of from_distribution are such lookups in the source.
NeverPicksZeroWeightAboveZero ==
    /\ (Running /\ Weighted(heap["belief"])) =>
          /\ \A u \in TestUniforms \ {Zero} : PicksNonZero(heap["belief"], u)
          /\ map_index(heap["belief"], Zero) = 0
    /\ (Returned({"from_distribution"}) /\ Weighted(call.pre)) =>
          \A k \in 1 .. Len(call.u) :
              /\ heap[call.this].locations_[k] =
                     call.pre.locations_[map_index(call.pre, call.u[k]) + 1]
              /\ call.u[k] # Zero => PicksNonZero(call.pre, call.u[k])
              /\ call.u[k] = Zero => heap[call.this].locations_[k] = call.pre.locations_[1]

\* C20 witness: two draws, 0 and a positive one, from two particles at different
\* locations of which the first has weight zero: the draw 0 returned the first
NeverPicksZeroWeightAboveZero_Witness ==
    /\ Returned({"from_distribution"})
    /\ size(call.pre) = 2
    /\ Weighted(call.pre)
    /\ call.pre.prob_mass_[1] = Zero
    /\ call.pre.locations_[1] # call.pre.locations_[2]
    /\ Len(call.u) = 2
    /\ call.u[1] = Zero
    /\ call.u[2] # Zero
    /\ heap[call.this].locations_ = call.pre.locations_

====
